---------------------------- MODULE Spec2Model ----------------------------
(***************************************************************************)
(* Event registry and dispatch of package backend (src/events.go).         *)
(*                                                                         *)
(* An event instance is an ordered slice of callbacks.  Add appends to it, *)
(* the multicast families (ViewEvent, WindowEvent, InitEvent, PathEvent,   *)
(* ProjectEvent) call every callback in order, QueryContextEvent.Call      *)
(* stops at the first callback that does not answer Unknown.  init()       *)
(* registers one context handler on OnQueryContext and one callback on     *)
(* OnLoad.                                                                 *)
(*                                                                         *)
(* Strings that the code inspects (context keys) are sequences of          *)
(* one-character strings, so that HasPrefix and key[8:] are computed.      *)
(***************************************************************************)
EXTENDS Integers, Sequences, FiniteSets, TLC

VARIABLES
    events,   \* event instance -> its slice of callbacks
    stack,    \* active dispatch walks, innermost last
    log,      \* callbacks invoked by the current or last dispatch, in order
    status,   \* "idle", "running", "returned" or "panicked"
    ret,      \* <<r>> once a context query has returned r, else << >>
    call,     \* the dispatch that was started last: event, slice, arguments
    adds,     \* number of registrations made by feature modules
    watched,  \* watch requests issued by the current or last dispatch
    names,    \* the naming tables, one per family that has one
    started,  \* the host has run its startup initialisation
    racers    \* goroutine -> the Add it is executing, step by step

vars == <<events, stack, log, status, ret, call, adds, watched, names, started, racers>>

\* What the dispatch and the registration of a single goroutine never write.
env == <<names, started, racers>>

----------------------------------------------------------------------------
(* Bounds of the model *)

\* Registrations made by feature modules after init().
MaxAdds == 3
\* Largest selection count of a view.
MaxSel == 3
\* Largest whole number used as an operand.
MaxNum == 3
\* Deepest nesting of dispatch walks.
MaxDepth == 3

----------------------------------------------------------------------------
(* QueryContextReturn, events.go:66-70 *)

True == 0
False == 1
Unknown == 2

QueryContextReturn == {True, False, Unknown}

(* util.Op, the comparison operators of a context *)
OpEqual == "OpEqual"
OpNotEqual == "OpNotEqual"
Ops == {OpEqual, OpNotEqual, "OpRegexMatch", "OpNotRegexMatch",
        "OpRegexContains", "OpNotRegexContains"}

----------------------------------------------------------------------------
(* The declared event instances, events.go:160-187 *)

ViewEvents == {"OnNew", "OnLoad", "OnActivated", "OnDeactivated", "OnPreClose",
               "OnClose", "OnPreSave", "OnPostSave", "OnModified",
               "OnSelectionModified", "OnStatusChanged"}
WindowEvents == {"OnNewWindow", "OnProjectChanged"}
InitEvents == {"OnInit"}
PathEvents == {"OnPackagesPathAdd", "OnPackagesPathRemove", "OnDefaultPathAdd",
               "OnUserPathAdd"}
ProjectEvents == {"OnAddFolder", "OnRemoveFolder"}
\* OnQueryContext, and one QueryContextEvent value declared by a client of
\* the exported type, which init() does not touch.
QueryContextEvents == {"OnQueryContext", "LocalQuery"}

EventInstances == ViewEvents \cup WindowEvents \cup InitEvents \cup PathEvents
                    \cup ProjectEvents \cup QueryContextEvents

Family(e) ==
    CASE e \in ViewEvents -> "view"
      [] e \in WindowEvents -> "window"
      [] e \in InitEvents -> "init"
      [] e \in PathEvents -> "path"
      [] e \in ProjectEvents -> "project"
      [] e \in QueryContextEvents -> "query"

(* The naming tables, events.go:189-214.  A Go map lookup of a missing key *)
(* yields the zero value, the empty string.                                *)
evNames == [e \in ViewEvents \ {"OnStatusChanged"} |-> e]
wevNames == [e \in WindowEvents |-> e]
pkgPathevNames == [e \in {"OnPackagesPathAdd", "OnPackagesPathRemove"} |-> e]
projectevNames == [e \in ProjectEvents |-> e]

Lookup(table, e) == IF e \in DOMAIN table THEN table[e] ELSE ""


----------------------------------------------------------------------------
(* Strings the code inspects *)

Str_setting_dot == <<"s","e","t","t","i","n","g",".">>
Str_num_selections == <<"n","u","m","_","s","e","l","e","c","t","i","o","n","s">>
Str_wrap == <<"w","r","a","p">>

\* strings.HasPrefix(s, prefix)
HasPrefix(s, prefix) ==
    Len(s) >= Len(prefix) /\ SubSeq(s, 1, Len(prefix)) = prefix

\* The Go slice expression s[n:], for n <= len(s).
SliceFrom(s, n) == SubSeq(s, n + 1, Len(s))

\* Context keys of the model: the two built-in keys, and keys that are
\* close to them.
Keys == {
    Str_setting_dot \o Str_wrap,                 \* "setting.wrap"
    Str_setting_dot,                             \* "setting."
    <<"s","e","t","t","i","n","g">>,             \* "setting"
    <<"s","e","t","t","i","n","g","s",".">> \o Str_wrap,  \* "settings.wrap"
    <<"x",".">> \o Str_setting_dot \o Str_wrap,  \* "x.setting.wrap"
    Str_num_selections,                          \* "num_selections"
    Str_setting_dot \o Str_num_selections,       \* "setting.num_selections"
    SubSeq(Str_num_selections, 1, 13),           \* "num_selection"
    Str_num_selections \o <<"2">>,               \* "num_selections2"
    << >>,                                       \* ""
    <<"o","t","h","e","r">> }                    \* "other"

----------------------------------------------------------------------------
(* Views.  A view is known to this code by its settings and its           *)
(* selection: v.Settings().Bool(name) and v.Sel().Len().                   *)

SettingNames == {Str_wrap, << >>, Str_num_selections}
\* A setting is a boolean, or a value of another type, or not set.
SettingValues == {"true", "false", "other", "unset"}

\* v.Settings().Bool(name): the value when it is a boolean, false otherwise.
SettingsBool(v, name) ==
    name \in DOMAIN v.settings /\ v.settings[name] = "true"

\* v.Sel().Len()
SelLen(v) == v.sel

\* v.FileName(): every view has a file name of its own.
FileName(v) == <<"file", v.id>>

\* The views of the built-in handler's check.
AllViews ==
    { [id |-> 1, settings |-> [n \in SettingNames |-> IF n = Str_wrap THEN w ELSE e], sel |-> s] :
        w \in SettingValues, e \in {"true", "unset"}, s \in 0..MaxSel }

\* The views of the dispatch model.
View1 == [id |-> 1, settings |-> [n \in SettingNames |-> IF n = Str_wrap THEN "true" ELSE "unset"],
          sel |-> 2]
View2 == [id |-> 2, settings |-> [n \in SettingNames |-> "false"], sel |-> 0]
Views == {View1, View2}
Windows == {"w1", "w2"}
Paths == {"p1", "p2"}
ProjectArgs == {<<"w1", "p2">>, <<"w2", "p1">>}

----------------------------------------------------------------------------
(* Operands.  An operand is an interface{} value: a dynamic type t and a   *)
(* value.  A float64 holds n/2 (n = 5 is 2.5); an int holds n; a string    *)
(* holds the decimal text of n; nil and bool ignore n.  float64 operands   *)
(* are finite and within the range of int.                                 *)

Operand(t, n) == [t |-> t, n |-> n]
Operands ==
    { Operand("float64", n) : n \in (-3)..(2 * MaxNum + 1) }
      \cup { Operand(t, n) : t \in {"int", "string"}, n \in 0..MaxNum }
      \cup { Operand("nil", 0), Operand("bool", 0), Operand("bool", 1) }

\* opf, _ := operand.(float64): the value (in halves) when the dynamic type
\* is float64, the zero value otherwise.
\* (Faulty variant: the text of a string operand is read as a number.)
AssertFloat64ParseMut(operand) ==
    IF operand.t = "float64" THEN operand.n
    ELSE IF operand.t = "string" THEN 2 * operand.n ELSE 0
AssertFloat64(operand) ==
    IF operand.t = "float64" THEN operand.n ELSE 0

\* int(opf): the fraction is discarded, truncating toward zero.
\* (Faulty variant: rounds down instead of toward zero.)
IntOfFloatMut(h) == h \div 2
IntOfFloat(h) == IF h >= 0 THEN h \div 2 ELSE -((-h) \div 2)

----------------------------------------------------------------------------
(* The context handler registered by init(), events.go:218-242 *)

\* The setting's name, key[8:].  (Faulty variant: key[7:] keeps the dot.)
SettingNameOfMut(key) == SliceFrom(key, 7)
SettingNameOf(key) == SliceFrom(key, 8)

\* The first condition of the handler.  (Faulty variant: the operator is
\* not tested.)
IsSettingQueryMut(key, operator) == HasPrefix(key, Str_setting_dot)
IsSettingQuery(key, operator) ==
    HasPrefix(key, Str_setting_dot) /\ operator = OpEqual

BuiltinQueryContext(v, key, operator, operand, match_all) ==
    IF IsSettingQuery(key, operator)
    THEN IF SettingsBool(v, SettingNameOf(key)) THEN True ELSE False
    ELSE IF key = Str_num_selections
    THEN LET opf == AssertFloat64(operand)
             op == IntOfFloat(opf)
         IN CASE operator = OpEqual ->
                   IF op = SelLen(v) THEN True ELSE False
              [] operator = OpNotEqual ->
                   IF op # SelLen(v) THEN True ELSE False
              [] OTHER -> Unknown
    ELSE Unknown

----------------------------------------------------------------------------
(* Callbacks.  A callback is an opaque function value; the model knows it  *)
(* by a name and by what a call of it does.                                *)

\* The callback init() registers on OnLoad (events.go:244-246) and the
\* context handler it registers on OnQueryContext (events.go:218-242).
WatchOnLoad == "watchOnLoad"
BuiltinHandler == "builtin"

\* Callbacks of feature modules: cbA and cbB return, cbPanic panics.
ModuleCallbacks == {"cbA", "cbB", "cbPanic"}
\* Context handlers of feature modules: H1 answers Unknown, H2 True,
\* H3 False, whatever the query; HPanic panics.
ModuleHandlers == {"H1", "H2", "H3", "HPanic"}

Faults(cb) == cb \in {"cbPanic", "HPanic"}

\* Callbacks that call back into the registry.  cbRefire fires the event
\* it is registered on, every time; cbNest does so unless it already runs
\* inside a nested walk.  cbReg registers cbNew, and HReg registers HNew,
\* on the event it is registered on, unless it is registered there already;
\* HReg and HNew answer Unknown.
ReentrantCallbacks == {"cbA", "cbRefire", "cbNest"}
RegisteringCallbacks == {"cbA", "cbReg"}
RegisteringHandlers == {"H2", "HReg"}

FiresOwnEvent(cb, depth) == cb = "cbRefire" \/ (cb = "cbNest" /\ depth = 1)
NewCallbackOf(cb) == IF cb = "cbReg" THEN "cbNew" ELSE "HNew"
RegistersOnOwnEvent(cb, slice) ==
    /\ cb \in {"cbReg", "HReg"}
    /\ \A k \in 1..Len(slice) : slice[k] # NewCallbackOf(cb)

\* The value a context handler that does not panic returns for a query.
HandlerReturn(cb, q) ==
    CASE cb = BuiltinHandler -> BuiltinQueryContext(q[1], q[2], q[3], q[4], q[5])
      [] cb = "H1" -> Unknown
      [] cb = "H2" -> True
      [] cb = "H3" -> False
      [] cb \in {"HReg", "HNew"} -> Unknown

----------------------------------------------------------------------------
(* Add appends the callback to the slice, one method per family *)

\* InitEvent.Add, events.go:74-76
\* (Faulty variant: a callback that is already registered is not added.)
InitEventAddOnceMut(ie, i) ==
    IF \E k \in 1..Len(ie) : ie[k] = i THEN ie ELSE Append(ie, i)
InitEventAdd(ie, i) == Append(ie, i)

\* ViewEvent.Add, events.go:89-91
\* (Faulty variants: one puts the callback first, one skips a callback that
\* is already registered, one stores the callback over the last element.)
ViewEventAddOverwriteMut(ve, cb) ==
    IF ve = << >> THEN <<cb>> ELSE [ve EXCEPT ![Len(ve)] = cb]
ViewEventAddPrependMut(ve, cb) == <<cb>> \o ve
ViewEventAddDedupMut(ve, cb) ==
    IF \E k \in 1..Len(ve) : ve[k] = cb THEN ve ELSE Append(ve, cb)
ViewEventAdd(ve, cb) == Append(ve, cb)

\* QueryContextEvent.Add, events.go:104-106
\* (Faulty variant: the handler is put first.)
QueryContextEventAddPrependMut(qe, cb) == <<cb>> \o qe
QueryContextEventAdd(qe, cb) == Append(qe, cb)

\* WindowEvent.Add, events.go:125-127
WindowEventAdd(we, cb) == Append(we, cb)

\* PathEvent.Add, events.go:138-140
PathEventAdd(pe, cb) == Append(pe, cb)

\* ProjectEvent.Add, events.go:149-151
ProjectEventAdd(pe, cb) == Append(pe, cb)

\* The Add method of the family of instance e.
AddOf(e, slice, cb) ==
    CASE Family(e) = "init" -> InitEventAdd(slice, cb)
      [] Family(e) = "view" -> ViewEventAdd(slice, cb)
      [] Family(e) = "query" -> QueryContextEventAdd(slice, cb)
      [] Family(e) = "window" -> WindowEventAdd(slice, cb)
      [] Family(e) = "path" -> PathEventAdd(slice, cb)
      [] Family(e) = "project" -> ProjectEventAdd(slice, cb)

\* The naming tables as the package's variable block leaves them.
NamingTables ==
    [view |-> evNames, window |-> wevNames, path |-> pkgPathevNames,
     project |-> projectevNames]

\* The registry after init(), events.go:216-247: every declared instance is
\* a nil slice but the two init() adds to.  (Faulty variant: the settings
\* lookup and the selection count are registered as two handlers.)
PackageInitSplitMut ==
    [e \in EventInstances |->
        CASE e = "OnQueryContext" ->
                QueryContextEventAdd(QueryContextEventAdd(<< >>, BuiltinHandler),
                                     BuiltinHandler)
          [] e = "OnLoad" -> ViewEventAdd(<< >>, WatchOnLoad)
          [] OTHER -> << >>]
PackageInit ==
    [e \in EventInstances |->
        CASE e = "OnQueryContext" -> QueryContextEventAdd(<< >>, BuiltinHandler)
          [] e = "OnLoad" -> ViewEventAdd(<< >>, WatchOnLoad)
          [] OTHER -> << >>]

----------------------------------------------------------------------------
(* The instances and arguments the model registers on and fires *)

ViewTargets == {"OnLoad"}
WindowTargets == {"OnNewWindow"}
PathTargets == {"OnPackagesPathAdd"}
ProjectTargets == {"OnAddFolder"}

SpecQueries == {
    <<View1, Str_setting_dot \o Str_wrap, OpEqual, Operand("nil", 0), FALSE>>,
    <<View1, Str_num_selections, OpNotEqual, Operand("float64", 4), FALSE>>,
    <<View2, <<"o","t","h","e","r">>, OpEqual, Operand("nil", 0), TRUE>> }

NoCall == [ev |-> "none", cbs |-> << >>, args |-> << >>, name |-> ""]

\* Goroutines that register callbacks, and one that executes no Add.
Goroutines == {"g1", "g2"}
NoAdd ==
    [pc |-> "idle", ev |-> "none", cb |-> "none", seen |-> << >>,
     raced |-> FALSE, done |-> << >>]

Init ==
    /\ events = PackageInit
    /\ stack = << >>
    /\ log = << >>
    /\ status = "idle"
    /\ ret = << >>
    /\ call = NoCall
    /\ adds = 0
    /\ watched = << >>
    /\ names = NamingTables
    /\ started = FALSE
    /\ racers = [g \in Goroutines |-> NoAdd]

----------------------------------------------------------------------------
(* Registration by a feature module, outside any dispatch *)

\* (Faulty variant: the instances of a family share one slice.)
RegisterSharedMut(e, slice) ==
    /\ stack = << >>
    /\ adds < MaxAdds
    /\ events' = [o \in EventInstances |->
                    IF Family(o) = Family(e) THEN slice ELSE events[o]]
    /\ adds' = adds + 1
    /\ log' = << >>
    /\ status' = "idle"
    /\ ret' = << >>
    /\ call' = NoCall
    /\ watched' = << >>
    /\ UNCHANGED <<stack, env>>
Register(e, slice) ==
    /\ stack = << >>
    /\ adds < MaxAdds
    /\ events' = [events EXCEPT ![e] = slice]
    /\ adds' = adds + 1
    /\ log' = << >>
    /\ status' = "idle"
    /\ ret' = << >>
    /\ call' = NoCall
    /\ watched' = << >>
    /\ UNCHANGED <<stack, env>>

AddInitOf(cbs) ==
    \E e \in InitEvents, cb \in cbs :
        Register(e, InitEventAdd(events[e], cb))
AddViewOn(targets, cbs) ==
    \E e \in targets, cb \in cbs :
        Register(e, ViewEventAdd(events[e], cb))
AddQueryOn(targets, cbs) ==
    \E e \in targets, cb \in cbs :
        Register(e, QueryContextEventAdd(events[e], cb))
AddPathOn(targets, cbs) ==
    \E e \in targets, cb \in cbs :
        Register(e, PathEventAdd(events[e], cb))

AddInit == AddInitOf(ModuleCallbacks)
AddView == AddViewOn(ViewTargets, ModuleCallbacks)
AddQuery == AddQueryOn(QueryContextEvents, ModuleHandlers)
AddWindow ==
    \E e \in WindowTargets, cb \in ModuleCallbacks :
        Register(e, WindowEventAdd(events[e], cb))
AddPath == AddPathOn(PathTargets, ModuleCallbacks)
AddProject ==
    \E e \in ProjectTargets, cb \in ModuleCallbacks :
        Register(e, ProjectEventAdd(events[e], cb))

----------------------------------------------------------------------------
(* Dispatch.  A walk is a frame: the event, the slice the range clause     *)
(* evaluated when the loop started, the index of the callback that is      *)
(* called next or is running, the arguments, and the name looked up for    *)
(* the log line.                                                           *)

Top == stack[Len(stack)]
Pop == SubSeq(stack, 1, Len(stack) - 1)

Frame(e, args, name) ==
    [ev |-> e, cbs |-> events[e], i |-> 1, args |-> args, name |-> name]

\* Entry of a Call made by the host: the log line, then the range clause.
Enter(e, args, name) ==
    /\ stack = << >>
    /\ stack' = <<Frame(e, args, name)>>
    /\ call' = [ev |-> e, cbs |-> events[e], args |-> args, name |-> name]
    /\ log' = << >>
    /\ status' = "running"
    /\ ret' = << >>
    /\ watched' = << >>
    /\ UNCHANGED <<events, adds, env>>

\* A panic is not recovered anywhere in this file: it unwinds every walk.
Panic ==
    /\ stack' = << >>
    /\ status' = "panicked"

\* The callback of the current iteration returns: the loop goes on.
Advance ==
    /\ stack' = [stack EXCEPT ![Len(stack)].i = @ + 1]
    /\ UNCHANGED status

\* The innermost walk ends.  A nested walk was started by the callback its
\* caller's loop is at, which now returns.
Unwind ==
    /\ stack' = IF Len(stack) = 1 THEN << >>
                ELSE [Pop EXCEPT ![Len(stack) - 1].i = @ + 1]
    /\ status' = IF Len(stack) = 1 THEN "returned" ELSE status

\* GetEditor().Watch(v.FileName(), v), events.go:245
WatchRequest(v) == [file |-> FileName(v), view |-> v.id]
\* (Faulty variant: the handler asks for the watch of the path and of the
\* view, two requests.)
WatchedAfterTwiceMut(cb, args) ==
    IF cb = WatchOnLoad
    THEN watched \o <<WatchRequest(args[1]), WatchRequest(args[1])>>
    ELSE watched
WatchedAfter(cb, args) ==
    IF cb = WatchOnLoad THEN Append(watched, WatchRequest(args[1])) ELSE watched

\* One iteration of the loop over the slice: the next callback is called.
\* A callback may panic, fire the event it is called for (a nested walk,
\* with the same arguments), register a callback on it, or just return.
\* (Faulty variants: one recovers a panic and goes on with the next
\* callback, one leaves the loop after the first callback, one has a guard
\* that makes a Call of an event inside a walk of that event do nothing,
\* one ranges over the event's current slice instead of the one the loop
\* started with.)
LoopBodyRecoverMut(fam) ==
    /\ stack # << >>
    /\ Family(Top.ev) = fam
    /\ Top.i <= Len(Top.cbs)
    /\ log' = Append(log, [cb |-> Top.cbs[Top.i], args |-> Top.args])
    /\ watched' = WatchedAfter(Top.cbs[Top.i], Top.args)
    /\ Advance
    /\ UNCHANGED <<events, adds, call, ret, env>>
LoopBodyBreakMut(fam) ==
    /\ stack # << >>
    /\ Family(Top.ev) = fam
    /\ Top.i <= Len(Top.cbs)
    /\ log' = Append(log, [cb |-> Top.cbs[Top.i], args |-> Top.args])
    /\ watched' = WatchedAfter(Top.cbs[Top.i], Top.args)
    /\ IF Faults(Top.cbs[Top.i])
       THEN Panic
       ELSE /\ stack' = [stack EXCEPT ![Len(stack)].i = Len(Top.cbs) + 1]
            /\ UNCHANGED status
    /\ UNCHANGED <<events, adds, call, ret, env>>
LoopBodyGuardedMut(fam) ==
    /\ stack # << >>
    /\ Family(Top.ev) = fam
    /\ Top.i <= Len(Top.cbs)
    /\ log' = Append(log, [cb |-> Top.cbs[Top.i], args |-> Top.args])
    /\ watched' = WatchedAfter(Top.cbs[Top.i], Top.args)
    /\ IF Faults(Top.cbs[Top.i]) THEN Panic ELSE Advance
    /\ UNCHANGED <<events, adds, call, ret, env>>
LoopBodyLiveSliceMut(fam) ==
    /\ stack # << >>
    /\ Family(Top.ev) = fam
    /\ Top.i <= Len(Top.cbs)
    /\ log' = Append(log, [cb |-> Top.cbs[Top.i], args |-> Top.args])
    /\ watched' = WatchedAfter(Top.cbs[Top.i], Top.args)
    /\ IF RegistersOnOwnEvent(Top.cbs[Top.i], events[Top.ev])
       THEN /\ adds < MaxAdds
            /\ events' = [events EXCEPT ![Top.ev] =
                             AddOf(Top.ev, @, NewCallbackOf(Top.cbs[Top.i]))]
            /\ adds' = adds + 1
            /\ stack' = [stack EXCEPT ![Len(stack)].i = @ + 1,
                                      ![Len(stack)].cbs = events'[Top.ev]]
            /\ UNCHANGED status
       ELSE Advance /\ UNCHANGED <<events, adds>>
    /\ UNCHANGED <<call, ret, env>>
LoopBody(fam) ==
    /\ stack # << >>
    /\ Family(Top.ev) = fam
    /\ Top.i <= Len(Top.cbs)
    /\ log' = Append(log, [cb |-> Top.cbs[Top.i], args |-> Top.args])
    /\ watched' = WatchedAfter(Top.cbs[Top.i], Top.args)
    /\ IF Faults(Top.cbs[Top.i])
       THEN Panic /\ UNCHANGED <<events, adds>>
       ELSE IF FiresOwnEvent(Top.cbs[Top.i], Len(stack))
       THEN /\ Len(stack) < MaxDepth
            /\ stack' = Append(stack, Frame(Top.ev, Top.args, Top.name))
            /\ UNCHANGED <<status, events, adds>>
       ELSE IF RegistersOnOwnEvent(Top.cbs[Top.i], events[Top.ev])
       THEN /\ adds < MaxAdds
            /\ events' = [events EXCEPT ![Top.ev] =
                             AddOf(Top.ev, @, NewCallbackOf(Top.cbs[Top.i]))]
            /\ adds' = adds + 1
            /\ Advance
       ELSE Advance /\ UNCHANGED <<events, adds>>
    /\ UNCHANGED <<call, ret, env>>

\* The end of a multicast walk: the loop is over and the function returns.
Return ==
    /\ stack # << >>
    /\ Family(Top.ev) # "query"
    /\ Top.i > Len(Top.cbs)
    /\ Unwind
    /\ UNCHANGED <<events, adds, call, ret, log, watched, env>>

\* InitEvent.call, events.go:79-85
InitEventCall == \E ie \in InitEvents : Enter(ie, << >>, "OnInit")
InitEventCallLoop == LoopBody("init")

\* ViewEvent.Call, events.go:95-100
\* The name of the log line.  (Faulty variant: an instance without an entry
\* is given a name made up from its identity.)
NameOfMut(table, e) == IF e \in DOMAIN table THEN table[e] ELSE e
NameOf(table, e) == Lookup(table, e)

ViewEventCallOn(targets) ==
    \E ve \in targets, v \in Views : Enter(ve, <<v>>, NameOf(names.view, ve))
ViewEventCall == ViewEventCallOn(ViewTargets)
ViewEventCallLoop == LoopBody("view")

\* WindowEvent.Call, events.go:131-136
WindowEventCall ==
    \E we \in WindowTargets, w \in Windows : Enter(we, <<w>>, NameOf(names.window, we))
WindowEventCallLoop == LoopBody("window")

\* PathEvent.call, events.go:142-147
PathEventCallOn(targets) ==
    \E pe \in targets, p \in Paths : Enter(pe, <<p>>, NameOf(names.path, pe))
PathEventCall == PathEventCallOn(PathTargets)
PathEventCallLoop == LoopBody("path")

\* ProjectEvent.call, events.go:153-158
ProjectEventCall ==
    \E pe \in ProjectTargets, a \in ProjectArgs :
        Enter(pe, a, NameOf(names.project, pe))
ProjectEventCallLoop == LoopBody("project")

\* QueryContextEvent.Call, events.go:111-121
\* The test r != Unknown.  (Faulty variant: only True ends the search.)
IsDecisiveMut(r) == r = True
IsDecisive(r) == r # Unknown

QueryContextEventCallOn(targets) ==
    \E qe \in targets, q \in SpecQueries : Enter(qe, q, "")
QueryContextEventCall == QueryContextEventCallOn(QueryContextEvents)

\* One iteration: r := qe[i](...); if r != Unknown { return r }
QueryContextEventCallLoop ==
    /\ stack # << >>
    /\ Family(Top.ev) = "query"
    /\ Top.i <= Len(Top.cbs)
    /\ log' = Append(log, [cb |-> Top.cbs[Top.i], args |-> Top.args])
    /\ IF Faults(Top.cbs[Top.i])
       THEN Panic /\ UNCHANGED <<ret, events, adds>>
       ELSE /\ IF RegistersOnOwnEvent(Top.cbs[Top.i], events[Top.ev])
               THEN /\ adds < MaxAdds
                    /\ events' = [events EXCEPT ![Top.ev] =
                                     AddOf(Top.ev, @, NewCallbackOf(Top.cbs[Top.i]))]
                    /\ adds' = adds + 1
               ELSE UNCHANGED <<events, adds>>
            /\ LET r == HandlerReturn(Top.cbs[Top.i], Top.args)
               IN IF IsDecisive(r)
                  THEN /\ Unwind
                       /\ ret' = <<r>>
                  ELSE /\ Advance
                       /\ UNCHANGED ret
    /\ UNCHANGED <<call, watched, env>>

\* The loop is over: return Unknown.  (Faulty variant: return False.)
ExhaustedReturnMut == False
ExhaustedReturn == Unknown
QueryContextEventCallExhausted ==
    /\ stack # << >>
    /\ Family(Top.ev) = "query"
    /\ Top.i > Len(Top.cbs)
    /\ Unwind
    /\ ret' = <<ExhaustedReturn>>
    /\ UNCHANGED <<events, adds, call, log, watched, env>>

\* All six families together; of the context-query instances, the one the
\* package declares.
AddQueryDeclared == AddQueryOn({"OnQueryContext"}, ModuleHandlers)
QueryContextEventCallDeclared == QueryContextEventCallOn({"OnQueryContext"})

Next ==
    \/ AddInit
    \/ AddView
    \/ AddQueryDeclared
    \/ AddWindow
    \/ AddPath
    \/ AddProject
    \/ InitEventCall
    \/ InitEventCallLoop
    \/ ViewEventCall
    \/ ViewEventCallLoop
    \/ WindowEventCall
    \/ WindowEventCallLoop
    \/ PathEventCall
    \/ PathEventCallLoop
    \/ ProjectEventCall
    \/ ProjectEventCallLoop
    \/ Return
    \/ QueryContextEventCallDeclared
    \/ QueryContextEventCallLoop
    \/ QueryContextEventCallExhausted

Spec == Init /\ [][Next]_vars

\* The multicast families alone: no context handler is registered and no
\* context is queried.
NextMulticast ==
    \/ AddInit
    \/ AddView
    \/ AddWindow
    \/ AddPath
    \/ AddProject
    \/ InitEventCall
    \/ InitEventCallLoop
    \/ ViewEventCall
    \/ ViewEventCallLoop
    \/ WindowEventCall
    \/ WindowEventCallLoop
    \/ PathEventCall
    \/ PathEventCallLoop
    \/ ProjectEventCall
    \/ ProjectEventCallLoop
    \/ Return

SpecMulticast == Init /\ [][NextMulticast]_vars

\* The context-query family alone.
NextQuery ==
    \/ AddQuery
    \/ QueryContextEventCall
    \/ QueryContextEventCallLoop
    \/ QueryContextEventCallExhausted

SpecQuery == Init /\ [][NextQuery]_vars

----------------------------------------------------------------------------
(* The built-in context handler on its own: every query of the bounded     *)
(* input sets is put to it once.                                           *)

BuiltinQueries == AllViews \X Keys \X Ops \X Operands \X BOOLEAN

InitBuiltin ==
    /\ events = PackageInit
    /\ stack = << >>
    /\ log = << >>
    /\ status = "idle"
    /\ ret = << >>
    /\ call \in {[ev |-> "OnQueryContext", cbs |-> PackageInit["OnQueryContext"],
                   args |-> q, name |-> ""] : q \in BuiltinQueries}
    /\ adds = 0
    /\ watched = << >>
    /\ names = NamingTables
    /\ started = FALSE
    /\ racers = [g \in Goroutines |-> NoAdd]

BuiltinApply ==
    /\ status = "idle"
    /\ ret' = <<BuiltinQueryContext(call.args[1], call.args[2], call.args[3],
                                    call.args[4], call.args[5])>>
    /\ log' = <<[cb |-> BuiltinHandler, args |-> call.args]>>
    /\ status' = "returned"
    /\ UNCHANGED <<events, stack, call, adds, watched, env>>

SpecBuiltin == InitBuiltin /\ [][BuiltinApply]_vars

----------------------------------------------------------------------------
(* View and path events with and without an entry in their naming table:   *)
(* OnLoad and OnPackagesPathAdd have one, OnStatusChanged and              *)
(* OnUserPathAdd have none.                                                *)

NamingViewTargets == {"OnLoad", "OnStatusChanged"}
NamingPathTargets == {"OnPackagesPathAdd", "OnUserPathAdd"}

AddViewNaming == AddViewOn(NamingViewTargets, ModuleCallbacks)
AddPathNaming == AddPathOn(NamingPathTargets, ModuleCallbacks)
ViewEventCallNaming == ViewEventCallOn(NamingViewTargets)
PathEventCallNaming == PathEventCallOn(NamingPathTargets)

NextNaming ==
    \/ AddViewNaming
    \/ AddPathNaming
    \/ ViewEventCallNaming
    \/ ViewEventCallLoop
    \/ PathEventCallNaming
    \/ PathEventCallLoop
    \/ Return

SpecNaming == Init /\ [][NextNaming]_vars

----------------------------------------------------------------------------
(* Startup.  The host fires OnInit, once, and after that runs its main     *)
(* loop, in which views are loaded.  Modules call OnInit.Add from their    *)
(* init() functions, before the host starts; nothing in Add keeps a module *)
(* from calling it later, between two dispatches of the main loop.         *)

\* OnInit.Add, at any time outside a walk.  What the last dispatch did
\* stays on record.
AddInitStartup ==
    \E e \in InitEvents, cb \in ModuleCallbacks :
        /\ stack = << >>
        /\ adds < MaxAdds
        /\ events' = [events EXCEPT ![e] = InitEventAdd(@, cb)]
        /\ adds' = adds + 1
        /\ UNCHANGED <<stack, log, status, ret, call, watched, env>>

\* The host's startup: OnInit.call().
EditorInit ==
    /\ ~started
    /\ stack = << >>
    /\ started' = TRUE
    /\ stack' = <<Frame("OnInit", << >>, "OnInit")>>
    /\ call' = [ev |-> "OnInit", cbs |-> events["OnInit"], args |-> << >>,
                name |-> "OnInit"]
    /\ log' = << >>
    /\ status' = "running"
    /\ ret' = << >>
    /\ watched' = << >>
    /\ UNCHANGED <<events, adds, names, racers>>

\* The host's main loop: a view finished loading.  A panic of an OnInit
\* callback ended the process.
EditorLoop ==
    /\ started
    /\ status # "panicked"
    /\ ViewEventCall

NextStartup ==
    \/ AddInitStartup
    \/ EditorInit
    \/ InitEventCallLoop
    \/ EditorLoop
    \/ ViewEventCallLoop
    \/ Return

SpecStartup == Init /\ [][NextStartup]_vars

----------------------------------------------------------------------------
(* Callbacks that fire the event they are registered on.  The walk of a    *)
(* firing runs to its end without the host doing anything else, as every   *)
(* call in it is a plain synchronous function call: the steps of a walk    *)
(* are weakly fair.                                                        *)

ReentrantViewTargets == {"OnNew"}

AddInitReentrant == AddInitOf(ReentrantCallbacks)
AddViewReentrant == AddViewOn(ReentrantViewTargets, ReentrantCallbacks)
ViewEventCallReentrant == ViewEventCallOn(ReentrantViewTargets)

NextReentrant ==
    \/ AddInitReentrant
    \/ AddViewReentrant
    \/ InitEventCall
    \/ InitEventCallLoop
    \/ ViewEventCallReentrant
    \/ ViewEventCallLoop
    \/ Return

WalkStep == InitEventCallLoop \/ ViewEventCallLoop \/ Return

SpecReentrant == Init /\ [][NextReentrant]_vars /\ WF_vars(WalkStep)

----------------------------------------------------------------------------
(* Add called from two goroutines with no synchronisation, next to the     *)
(* dispatching goroutine.  The statement of Add loads the slice header,    *)
(* appends the callback to what it loaded and stores the new header.  The  *)
(* header is several words and neither access is atomic: the store takes   *)
(* time (from AddStore to AddWrite), and an access to the same header      *)
(* made meanwhile, by an Add or by the range clause of a Call, finds the   *)
(* old header, the new one, or words of both.  With a mixed header the     *)
(* program reads or writes memory it does not own and its behaviour is     *)
(* undefined: the model records that and stops there.  A goroutine         *)
(* records the Adds it has completed (done) and whether one of its Adds    *)
(* overlapped an Add on the same instance or a dispatch (raced).           *)

RaceTargets == {"OnNew", "LocalQuery"}
RaceCallbacks(e) == IF Family(e) = "query" THEN {"H1", "H2"} ELSE {"cbA", "cbB"}
\* Each goroutine registers a callback of its own.
RaceCallbackOf(g, e) ==
    IF Family(e) = "query" THEN (IF g = "g1" THEN "H1" ELSE "H2")
    ELSE (IF g = "g1" THEN "cbA" ELSE "cbB")

\* The goroutine that dispatches.
Host == "host"

InAdd(g) == racers[g].pc # "idle"
Storing(g, e) == racers[g].pc = "store" /\ racers[g].ev = e
Overlaps(g, e) == \E h \in Goroutines \ {g} : InAdd(h) /\ racers[h].ev = e

\* The header goroutine g is storing.
StoredBy(g) == AddOf(racers[g].ev, racers[g].seen, racers[g].cb)

\* The goroutines other than g that are storing the header of e, and the
\* whole headers a load by g can find.
OtherStores(g, e) == {h \in Goroutines \ {g} : Storing(h, e)}
LoadOutcomes(g, e) == {events[e]} \cup {StoredBy(h) : h \in OtherStores(g, e)}

\* Every goroutine in an Add on e has raced, and g if it is one of them.
Raced(g, e) ==
    [h \in Goroutines |->
        IF (h = g /\ Overlaps(g, e)) \/ (h # g /\ InAdd(h) /\ racers[h].ev = e)
        THEN [racers[h] EXCEPT !.raced = TRUE]
        ELSE racers[h]]

Defined == status # "undefined"

\* An access found or left a mixed header.
Undefined(g, e) ==
    /\ status' = "undefined"
    /\ stack' = << >>
    /\ racers' = [h \in Goroutines |->
                    IF h = g \/ (InAdd(h) /\ racers[h].ev = e)
                    THEN [racers[h] EXCEPT !.raced = TRUE]
                    ELSE racers[h]]
    /\ UNCHANGED <<events, log, ret, call, adds, watched, names, started>>

\* The load of the slice header.
AddRead(g) ==
    /\ Defined
    /\ ~InAdd(g)
    /\ adds + Cardinality({h \in Goroutines : InAdd(h)}) < MaxAdds
    /\ \E e \in RaceTargets : \E hdr \in LoadOutcomes(g, e) :
          racers' = [Raced(g, e) EXCEPT ![g] =
                        [pc |-> "read", ev |-> e, cb |-> RaceCallbackOf(g, e), seen |-> hdr,
                         raced |-> racers[g].raced \/ Overlaps(g, e),
                         done |-> racers[g].done]]
    /\ UNCHANGED <<events, stack, log, status, ret, call, adds, watched, names, started>>

\* The load meets a store in progress and finds words of both headers.
AddReadTorn(g) ==
    /\ Defined
    /\ ~InAdd(g)
    /\ adds + Cardinality({h \in Goroutines : InAdd(h)}) < MaxAdds
    /\ \E e \in RaceTargets : OtherStores(g, e) # {} /\ Undefined(g, e)

\* The append to what was loaded; the store of the new header begins.
AddStore(g) ==
    /\ Defined
    /\ racers[g].pc = "read"
    /\ racers' = [racers EXCEPT ![g].pc = "store"]
    /\ UNCHANGED <<events, stack, log, status, ret, call, adds, watched, names, started>>

\* The store is complete.
AddWrite(g) ==
    /\ Defined
    /\ racers[g].pc = "store"
    /\ events' = [events EXCEPT ![racers[g].ev] = StoredBy(g)]
    /\ adds' = adds + 1
    /\ racers' = [racers EXCEPT ![g] =
                     [pc |-> "idle", ev |-> "none", cb |-> "none", seen |-> << >>,
                      raced |-> @.raced \/ call # NoCall,
                      done |-> Append(@.done, [ev |-> @.ev, cb |-> @.cb])]]
    /\ UNCHANGED <<stack, log, status, ret, call, watched, names, started>>

\* Two stores to one header overlap and leave words of both.
AddWriteTorn(g) ==
    /\ Defined
    /\ racers[g].pc = "store"
    /\ OtherStores(g, racers[g].ev) # {}
    /\ Undefined(g, racers[g].ev)

\* Entry of a Call made by the host while goroutines register: the range
\* clause, or the copy for the value receiver, loads the header.
EnterRace(e, args, name) ==
    /\ Defined
    /\ stack = << >>
    /\ \E hdr \in LoadOutcomes(Host, e) :
          /\ stack' = <<[ev |-> e, cbs |-> hdr, i |-> 1, args |-> args, name |-> name]>>
          /\ call' = [ev |-> e, cbs |-> hdr, args |-> args, name |-> name]
    /\ log' = << >>
    /\ status' = "running"
    /\ ret' = << >>
    /\ watched' = << >>
    /\ racers' = [h \in Goroutines |->
                    IF InAdd(h) THEN [racers[h] EXCEPT !.raced = TRUE] ELSE racers[h]]
    /\ UNCHANGED <<events, adds, names, started>>

\* The load of a Call meets a store in progress and finds words of both
\* headers.
EnterRaceTorn ==
    /\ Defined
    /\ stack = << >>
    /\ \E e \in RaceTargets : OtherStores(Host, e) # {} /\ Undefined(Host, e)

GoroutineAddRead == \E g \in Goroutines : AddRead(g)
GoroutineAddReadTorn == \E g \in Goroutines : AddReadTorn(g)
GoroutineAddStore == \E g \in Goroutines : AddStore(g)
GoroutineAddWrite == \E g \in Goroutines : AddWrite(g)
GoroutineAddWriteTorn == \E g \in Goroutines : AddWriteTorn(g)
ViewEventCallRace ==
    \E ve \in RaceTargets \cap ViewEvents, v \in Views :
        EnterRace(ve, <<v>>, NameOf(names.view, ve))
QueryContextEventCallRace ==
    \E qe \in RaceTargets \cap QueryContextEvents, q \in SpecQueries :
        EnterRace(qe, q, "")

NextRace ==
    \/ GoroutineAddRead
    \/ GoroutineAddReadTorn
    \/ GoroutineAddStore
    \/ GoroutineAddWrite
    \/ GoroutineAddWriteTorn
    \/ ViewEventCallRace
    \/ QueryContextEventCallRace
    \/ EnterRaceTorn
    \/ ViewEventCallLoop
    \/ Return
    \/ QueryContextEventCallLoop
    \/ QueryContextEventCallExhausted

SpecRace == Init /\ [][NextRace]_vars

----------------------------------------------------------------------------
(* Callbacks that register a callback on the event they are called for     *)

RegisteringViewTargets == {"OnNew"}
RegisteringQueryTargets == {"LocalQuery"}

AddViewRegistering == AddViewOn(RegisteringViewTargets, RegisteringCallbacks)
AddQueryRegistering == AddQueryOn(RegisteringQueryTargets, RegisteringHandlers)
ViewEventCallRegistering == ViewEventCallOn(RegisteringViewTargets)
QueryContextEventCallRegistering == QueryContextEventCallOn(RegisteringQueryTargets)

NextRegistering ==
    \/ AddViewRegistering
    \/ AddQueryRegistering
    \/ ViewEventCallRegistering
    \/ ViewEventCallLoop
    \/ Return
    \/ QueryContextEventCallRegistering
    \/ QueryContextEventCallLoop
    \/ QueryContextEventCallExhausted

SpecRegistering == Init /\ [][NextRegistering]_vars

----------------------------------------------------------------------------
(* Vocabulary of the properties *)

MulticastInstances == EventInstances \ QueryContextEvents

\* What a walk over cbs with arguments args logs when it calls the first n.
Invoked(cbs, args, n) == [j \in 1..n |-> [cb |-> cbs[j], args |-> args]]

\* Handler k of the slice answers True or False for q and every handler
\* before it answers Unknown.
FirstAnswerAt(cbs, q, k) ==
    /\ ~Faults(cbs[k])
    /\ HandlerReturn(cbs[k], q) \in {True, False}
    /\ \A j \in 1..(k - 1) : ~Faults(cbs[j]) /\ HandlerReturn(cbs[j], q) = Unknown

AllAnswerUnknown(cbs, q) ==
    \A k \in 1..Len(cbs) : ~Faults(cbs[k]) /\ HandlerReturn(cbs[k], q) = Unknown

\* Callback k is the first of the walk to panic: the ones before it return
\* and, in a context query, answer Unknown.
FirstFaultAt(e, cbs, q, k) ==
    /\ Faults(cbs[k])
    /\ \A j \in 1..(k - 1) :
          /\ ~Faults(cbs[j])
          /\ e \in QueryContextEvents => HandlerReturn(cbs[j], q) = Unknown

Count(seq, x) == Cardinality({k \in 1..Len(seq) : seq[k] = x})
CountInvoked(x) == Cardinality({k \in 1..Len(log) : log[k].cb = x})

RECURSIVE TotalLen(_, _)
TotalLen(reg, es) ==
    IF es = {} THEN 0
    ELSE LET e == CHOOSE x \in es : TRUE
         IN Len(reg[e]) + TotalLen(reg, es \ {e})

QueryOver == call.ev \in QueryContextEvents /\ status \in {"returned", "panicked"}

----------------------------------------------------------------------------
(* Properties of dispatch, checked under Spec *)

\* C1: a context query returns the answer of the first handler, in
\* registration order, that answers True or False; the handlers up to that
\* one have each been called once, in order, and none after it is called.
\* With H1 = Unknown, H2 = True, H3 = False: H1,H2,H3 and H2,H1,H3 give True,
\* H3,H1,H2 gives False.
C1_FirstAnswerWins ==
    QueryOver =>
        /\ \A k \in 1..Len(call.cbs) :
              FirstAnswerAt(call.cbs, call.args, k) =>
                  /\ status = "returned"
                  /\ ret = <<HandlerReturn(call.cbs[k], call.args)>>
                  /\ log = Invoked(call.cbs, call.args, k)
        /\ call.cbs = <<"H1", "H2", "H3">> => ret = <<True>> /\ Len(log) = 2
        /\ call.cbs = <<"H2", "H1", "H3">> => ret = <<True>> /\ Len(log) = 1
        /\ call.cbs = <<"H3", "H1", "H2">> => ret = <<False>> /\ Len(log) = 1

C1_Witness ==
    /\ status = "returned"
    /\ call.cbs = <<"H3", "H1", "H2">>
    /\ ret = <<False>>
    /\ log = <<[cb |-> "H3", args |-> call.args]>>

\* C2: a context query returns Unknown exactly when every registered
\* handler answers Unknown (an empty slice included), and then every
\* handler has been called once, in order.
C2_UnknownIffAllUnknown ==
    QueryOver =>
        /\ AllAnswerUnknown(call.cbs, call.args) => status = "returned"
        /\ status = "returned" =>
              (ret = <<Unknown>> <=> AllAnswerUnknown(call.cbs, call.args))
        /\ ret = <<Unknown>> =>
              log = Invoked(call.cbs, call.args, Len(call.cbs))

C2_Witness ==
    /\ status = "returned"
    /\ call.cbs = <<BuiltinHandler, "H1", "H1">>
    /\ ret = <<Unknown>>
    /\ Len(log) = 3

\* C3: a firing of a multicast event whose callbacks do not panic calls
\* c1, ..., cN in that order, each once, with the arguments of the firing,
\* and returns after cN; with no callback it calls nothing and returns.
C3_MulticastInOrder ==
    (call.ev \in MulticastInstances) =>
        LET n == Len(call.cbs) IN
        /\ (\A k \in 1..n : ~Faults(call.cbs[k])) => status # "panicked"
        /\ status = "returned" => log = Invoked(call.cbs, call.args, n)
        /\ status = "running" =>
              /\ Len(log) <= n
              /\ log = Invoked(call.cbs, call.args, Len(log))
              /\ ENABLED (LoopBody(Family(call.ev)) \/ Return)

C3_Witness ==
    /\ status = "returned"
    /\ call.ev = "OnAddFolder"
    /\ call.cbs = <<"cbB", "cbA", "cbB">>
    /\ call.args = <<"w2", "p1">>
    /\ log = Invoked(call.cbs, call.args, 3)

\* C4: every step leaves each event's slice a prefix of its new value; a
\* registration appends one callback to one slice, and nothing else changes
\* any slice.
C4_AppendOnly ==
    [][ IF adds' = adds
        THEN events' = events
        ELSE \E e \in EventInstances :
                /\ Len(events'[e]) = Len(events[e]) + 1
                /\ SubSeq(events'[e], 1, Len(events[e])) = events[e]
                /\ \A o \in EventInstances \ {e} : events'[o] = events[o] ]_vars

C4_Witness ==
    /\ adds = 3
    /\ status = "returned"
    /\ events["OnLoad"] = <<WatchOnLoad, "cbB", "cbA">>
    /\ call.ev = "OnLoad"
    /\ Len(log) = 3

\* C5: Add never drops a registration: every registration made occupies a
\* position of its own, and a firing calls a callback as many times as it
\* occurs in the slice.
C5_NoDeduplication ==
    /\ TotalLen(events, EventInstances) = TotalLen(PackageInit, EventInstances) + adds
    /\ (call.ev \in MulticastInstances /\ status = "returned") =>
          \A cb \in ModuleCallbacks \cup {WatchOnLoad} :
              CountInvoked(cb) = Count(events[call.ev], cb)

C5_Witness ==
    /\ status = "returned"
    /\ call.ev = "OnLoad"
    /\ Count(events["OnLoad"], "cbA") = 2
    /\ CountInvoked("cbA") = 2

\* C10: a panic of callback i is not recovered: the dispatch does not
\* return, callbacks 1..i-1 have been called, callback i once, callbacks
\* i+1..N not at all, and the event's slice is what it was before the walk.
C10_PanicPropagates ==
    /\ status = "panicked" =>
          /\ stack = << >>
          /\ ret = << >>
          /\ events[call.ev] = call.cbs
          /\ \E i \in 1..Len(call.cbs) :
                /\ FirstFaultAt(call.ev, call.cbs, call.args, i)
                /\ log = Invoked(call.cbs, call.args, i)
    /\ status = "returned" => \A k \in 1..Len(log) : ~Faults(log[k].cb)
    /\ (status \in {"returned", "panicked"} /\ call.ev \in EventInstances) =>
          \A i \in 1..Len(call.cbs) :
              FirstFaultAt(call.ev, call.cbs, call.args, i) => status = "panicked"

C10_Witness ==
    /\ status = "panicked"
    /\ call.ev = "OnLoad"
    /\ call.cbs = <<WatchOnLoad, "cbA", "cbPanic", "cbB">>
    /\ Len(log) = 3

----------------------------------------------------------------------------
(* Properties of the built-in context handler, checked under SpecBuiltin *)

Answered == status = "returned" /\ Len(call.args) = 5
QView == call.args[1]
QKey == call.args[2]
QOperator == call.args[3]
QOperand == call.args[4]
QMatchAll == call.args[5]

\* The integer a float64 of h halves converts to: the whole number between
\* zero and h/2 that is less than one away from h/2.
Truncated(h) ==
    CHOOSE z \in (-(MaxNum + 2))..(MaxNum + 2) :
        /\ h >= 0 => (2 * z <= h /\ h < 2 * z + 2)
        /\ h < 0 => (2 * z >= h /\ h > 2 * z - 2)

\* The answer of a comparison that holds, or does not.
Answer(holds) == IF holds THEN True ELSE False

\* C6: for a key "setting.<name>" and operator equality the handler answers
\* True when the view's setting <name> is true and False when it is false,
\* whatever the operand and match_all; it never answers Unknown.
C6_SettingEquality ==
    (Answered /\ QOperator = OpEqual) =>
        \A name \in SettingNames :
            QKey = Str_setting_dot \o name =>
                /\ QView.settings[name] = "true" => ret = <<True>>
                /\ QView.settings[name] = "false" => ret = <<False>>
                /\ ret # <<Unknown>>

C6_Witness ==
    /\ Answered
    /\ QKey = Str_setting_dot \o Str_wrap
    /\ QOperator = OpEqual
    /\ QView.settings[Str_wrap] = "true"
    /\ QOperand = Operand("string", 2)
    /\ QMatchAll = TRUE
    /\ ret = <<True>>

\* C7, as claimed: for key "num_selections" and a numeric operand n, of
\* whatever numeric type, the handler compares the integer value of n with
\* the selection count.
C7_AnyNumericOperand ==
    (Answered /\ QKey = Str_num_selections /\ QOperand.t \in {"float64", "int"}) =>
        LET n == IF QOperand.t = "int" THEN QOperand.n ELSE Truncated(QOperand.n)
        IN /\ QOperator = OpEqual => ret = <<Answer(n = SelLen(QView))>>
           /\ QOperator = OpNotEqual => ret = <<Answer(n # SelLen(QView))>>

\* C7, amended: for key "num_selections" and an operand of dynamic type
\* float64, the handler compares the operand with its fraction discarded
\* (toward zero) with the selection count s: equality answers True iff they
\* are equal, not-equal answers True iff they differ, False otherwise.  A
\* number of another type, such as int, is compared as 0.
C7_Float64Operand ==
    (Answered /\ QKey = Str_num_selections /\ QOperand.t \in {"float64", "int"}) =>
        LET n == IF QOperand.t = "int" THEN 0 ELSE Truncated(QOperand.n)
            s == SelLen(QView)
        IN /\ QOperator = OpEqual => ret = <<Answer(n = s)>>
           /\ QOperator = OpNotEqual => ret = <<Answer(n # s)>>
           /\ (s = 2 /\ QOperand = Operand("float64", 4) /\ QOperator = OpEqual)
                 => ret = <<True>>
           /\ (s = 2 /\ QOperand = Operand("float64", 6) /\ QOperator = OpEqual)
                 => ret = <<False>>
           /\ (s = 2 /\ QOperand = Operand("float64", 6) /\ QOperator = OpNotEqual)
                 => ret = <<True>>

C7_Witness ==
    /\ Answered
    /\ QKey = Str_num_selections
    /\ QOperator = OpNotEqual
    /\ QOperand = Operand("float64", 6)
    /\ SelLen(QView) = 2
    /\ ret = <<True>>

\* C8: the handler answers Unknown for every key that neither starts with
\* "setting." nor is "num_selections", for a "setting." key with an
\* operator other than equality, and for "num_selections" with an operator
\* other than equality and not-equal.
C8_UnknownOutsideDecisiveCases ==
    Answered =>
        /\ (~HasPrefix(QKey, Str_setting_dot) /\ QKey # Str_num_selections)
              => ret = <<Unknown>>
        /\ (HasPrefix(QKey, Str_setting_dot) /\ QOperator # OpEqual)
              => ret = <<Unknown>>
        /\ (QKey = Str_num_selections /\ QOperator \notin {OpEqual, OpNotEqual})
              => ret = <<Unknown>>

C8_Witness ==
    /\ Answered
    /\ QKey = Str_setting_dot \o Str_wrap
    /\ QOperator = OpNotEqual
    /\ QView.settings[Str_wrap] = "true"
    /\ ret = <<Unknown>>

\* C9: for key "num_selections" an operand that is not a number is compared
\* as 0 and the handler answers all the same: equality answers True exactly
\* when the view has no selection, not-equal exactly when it has at least
\* one.
C9_NonNumericOperandIsZero ==
    (Answered /\ QKey = Str_num_selections /\ QOperand.t \in {"string", "nil", "bool"}) =>
            /\ QOperator = OpEqual => ret = <<Answer(SelLen(QView) = 0)>>
            /\ QOperator = OpNotEqual => ret = <<Answer(SelLen(QView) >= 1)>>

C9_Witness ==
    /\ Answered
    /\ QKey = Str_num_selections
    /\ QOperator = OpEqual
    /\ QOperand = Operand("string", 2)
    /\ SelLen(QView) = 0
    /\ ret = <<True>>

----------------------------------------------------------------------------
(* The registry after package initialisation *)

\* No feature module has registered anything yet.
Pristine == adds = 0

\* C11 as stated: right after package initialisation OnQueryContext holds
\* exactly two pre-registered handlers, OnLoad exactly one, and every other
\* instance is empty.
C11_TwoHandlersAfterInit ==
    Pristine =>
        /\ Len(events["OnQueryContext"]) = 2
        /\ Len(events["OnLoad"]) = 1
        /\ \A e \in EventInstances \ {"OnQueryContext", "OnLoad"} : events[e] = << >>

\* C11 as the code has it: right after package initialisation OnQueryContext
\* holds exactly one pre-registered handler, the one function that does both
\* the settings-flag lookup and the selection-count comparison, OnLoad holds
\* exactly one, the file-watch handler, and every other instance is empty.
C11_OneCombinedHandlerAfterInit ==
    Pristine =>
        /\ events["OnQueryContext"] = <<BuiltinHandler>>
        /\ events["OnLoad"] = <<WatchOnLoad>>
        /\ \A e \in EventInstances \ {"OnQueryContext", "OnLoad"} : events[e] = << >>

C11_Witness ==
    /\ Pristine
    /\ status = "returned"
    /\ call.ev = "OnQueryContext"
    /\ call.cbs = <<BuiltinHandler>>
    /\ log = <<[cb |-> BuiltinHandler, args |-> call.args]>>

\* C12: every firing of OnLoad with view v issues exactly one watch request,
\* for the file name of v, and issues it before any callback a feature
\* module registered on OnLoad is invoked in that firing.
C12_WatchOnceBeforeModules ==
    call.ev = "OnLoad" =>
        /\ log = << >> => watched = << >>
        /\ log # << >> =>
              /\ Len(watched) = 1
              /\ watched[1].file = FileName(call.args[1])
              /\ watched[1].view = call.args[1].id
              /\ log[1].cb = WatchOnLoad
              /\ \A k \in 2 .. Len(log) : log[k].cb \in ModuleCallbacks
        /\ status = "returned" => log # << >>

C12_Witness ==
    /\ call.ev = "OnLoad"
    /\ call.args = <<View2>>
    /\ status = "returned"
    /\ Len(log) = 3
    /\ log[2].cb = "cbA"
    /\ watched = <<[file |-> FileName(View2), view |-> View2.id]>>

----------------------------------------------------------------------------
(* The naming tables *)

\* The instances the package's variable block declares.
DeclaredInstances == EventInstances \ {"LocalQuery"}

\* The table of the family of e; the init and the context-query family have
\* none.
TableOf(e) ==
    CASE Family(e) = "view" -> names.view
      [] Family(e) = "window" -> names.window
      [] Family(e) = "path" -> names.path
      [] Family(e) = "project" -> names.project
      [] OTHER -> << >>

Named(e) == e \in DOMAIN TableOf(e)

\* C13 as stated: every declared event instance has an entry in the naming
\* table of its family, a name that is not empty, and distinct instances
\* have distinct names.
C13_EveryDeclaredInstanceNamed ==
    /\ \A e \in DeclaredInstances : Named(e) /\ TableOf(e)[e] # ""
    /\ \A e1, e2 \in DeclaredInstances :
          (Named(e1) /\ Named(e2) /\ e1 # e2) => TableOf(e1)[e1] # TableOf(e2)[e2]

\* C14: a firing of a view or path event without an entry in its naming
\* table has the empty name and the lookup is no error: the firing panics
\* only if the callback it just called does, it calls the callbacks in
\* registration order with the arguments of the firing, and it returns after
\* the last one; all of which holds of an event with an entry too.
C14_UnnamedEventFiresAllCallbacks ==
    (call.ev \in NamingViewTargets \cup NamingPathTargets) =>
        LET n == Len(call.cbs) IN
        /\ ~Named(call.ev) => call.name = ""
        /\ Named(call.ev) => call.name = TableOf(call.ev)[call.ev]
        /\ call.cbs = events[call.ev]
        /\ Len(log) <= n
        /\ log = Invoked(call.cbs, call.args, Len(log))
        /\ status = "panicked" => (log # << >> /\ Faults(log[Len(log)].cb))
        /\ status = "returned" => Len(log) = n

C14_Witness ==
    /\ call.ev = "OnStatusChanged"
    /\ ~Named(call.ev)
    /\ call.name = ""
    /\ status = "returned"
    /\ call.cbs = <<"cbB", "cbA">>
    /\ log = Invoked(call.cbs, call.args, 2)

----------------------------------------------------------------------------
(* Startup *)

\* A walk of OnInit starts in this step.
StartsInitWalk ==
    /\ Len(stack') = Len(stack) + 1
    /\ stack'[Len(stack')].ev = "OnInit"

\* Callback invocations of OnInit made in this step.
InvokesInitCallback ==
    /\ stack # << >>
    /\ Top.ev = "OnInit"
    /\ log' # log

\* C15 as stated: once the startup walk has returned, every callback
\* registered on OnInit has been called by it, once per registration, in
\* registration order.
C15_EveryRegisteredCallbackInvokedOnce ==
    (started /\ call.ev = "OnInit" /\ status = "returned") =>
        log = Invoked(events["OnInit"], << >>, Len(events["OnInit"]))

\* C15 as the code has it: with a host that fires OnInit once, the one walk
\* calls the callbacks registered on OnInit before it started, in
\* registration order, each once per registration (all of them unless one
\* panics); when that walk is over no callback of OnInit is called again
\* and no walk of OnInit starts, so that a callback registered after the
\* walk started stays in the sequence and is never called.
C15_InitWalkOnceOverEarlierRegistrations ==
    /\ [](/\ Len(events["OnInit"]) = adds
          /\ ~started => (call = NoCall /\ log = << >>)
          /\ call.ev = "OnInit" =>
                /\ Len(call.cbs) <= Len(events["OnInit"])
                /\ SubSeq(events["OnInit"], 1, Len(call.cbs)) = call.cbs
                /\ Len(log) <= Len(call.cbs)
                /\ log = Invoked(call.cbs, << >>, Len(log))
                /\ status = "returned" => Len(log) = Len(call.cbs)
                /\ status = "panicked" => Faults(log[Len(log)].cb))
    /\ [][ /\ StartsInitWalk => (~started /\ call'.cbs = events["OnInit"])
           /\ InvokesInitCallback => (call.ev = "OnInit" /\ call' = call)
           /\ (started /\ call.ev # "OnInit") => (call'.ev # "OnInit") ]_vars

\* A callback registered after the startup walk: in the sequence, not called.
C15_Witness ==
    /\ started
    /\ call.ev = "OnInit"
    /\ status = "returned"
    /\ call.cbs = <<"cbA", "cbB">>
    /\ log = Invoked(<<"cbA", "cbB">>, << >>, 2)
    /\ events["OnInit"] = <<"cbA", "cbB", "cbA">>

----------------------------------------------------------------------------
(* Re-entrant firing *)

\* The callbacks a walk over cbs calls from index j on, at nesting depth d,
\* when nothing keeps a callback from firing the event again: a callback
\* that fires it is followed by a whole walk from the first callback, and
\* only then by its successor.  done is FALSE when the nesting went beyond
\* MaxDepth, where the sequence is cut.
RECURSIVE WalkFrom(_, _, _)
WalkFrom(cbs, j, d) ==
    IF j > Len(cbs) THEN [seq |-> << >>, done |-> TRUE]
    ELSE IF ~FiresOwnEvent(cbs[j], d)
    THEN LET rest == WalkFrom(cbs, j + 1, d)
         IN [seq |-> <<cbs[j]>> \o rest.seq, done |-> rest.done]
    ELSE IF d >= MaxDepth THEN [seq |-> << >>, done |-> FALSE]
    ELSE LET nested == WalkFrom(cbs, 1, d + 1)
             rest == WalkFrom(cbs, j + 1, d)
         IN IF nested.done
            THEN [seq |-> <<cbs[j]>> \o nested.seq \o rest.seq, done |-> rest.done]
            ELSE [seq |-> <<cbs[j]>> \o nested.seq, done |-> FALSE]

LogCallbacks == [k \in 1..Len(log) |-> log[k].cb]
IsPrefix(a, b) == Len(a) <= Len(b) /\ \A k \in 1..Len(a) : a[k] = b[k]
Occurs(cb, cbs) == \E k \in 1..Len(cbs) : cbs[k] = cb
ReentrantInstances == InitEvents \cup ReentrantViewTargets

\* C16: dispatch has no re-entrancy guard.  A callback of E that fires E
\* is followed in the firing's record by a whole nested walk of E from the
\* first callback, itself included, before its successor is called; a
\* firing none of whose callbacks fires its own event returns; and a firing
\* that has called a callback which always fires its own event does not
\* return: each such call leaves a walk open that is never closed.
C16_NoReentrancyGuard ==
    /\ []((call.ev \in ReentrantInstances) =>
            /\ IsPrefix(LogCallbacks, WalkFrom(call.cbs, 1, 1).seq)
            /\ status = "returned" =>
                  /\ WalkFrom(call.cbs, 1, 1).done
                  /\ LogCallbacks = WalkFrom(call.cbs, 1, 1).seq
            /\ \A k \in 1..Len(log) :
                  (/\ FiresOwnEvent(log[k].cb, 1)
                   /\ \A h \in 1..(k - 1) : ~FiresOwnEvent(log[h].cb, 1))
                      => \A j \in 1..k :
                            k + j <= Len(log) => log[k + j].cb = call.cbs[j]
            /\ Occurs("cbRefire", LogCallbacks) =>
                  /\ status = "running"
                  /\ Len(stack) > CountInvoked("cbRefire"))
    /\ (/\ call.ev \in ReentrantInstances
        /\ status = "running"
        /\ \A k \in 1..Len(call.cbs) : \A d \in 1..MaxDepth : ~FiresOwnEvent(call.cbs[k], d))
          ~> (status = "returned")

C16_Witness ==
    /\ call.ev = "OnNew"
    /\ call.cbs = <<"cbA", "cbNest">>
    /\ status = "returned"
    /\ LogCallbacks = <<"cbA", "cbNest", "cbA", "cbNest">>

\* A firing with a callback that always fires its own event: two walks are
\* open inside the first and the callback has been called a third time.
C16_RecursionReached ==
    /\ call.ev = "OnInit"
    /\ call.cbs = <<"cbRefire">>
    /\ Len(stack) = MaxDepth
    /\ status = "running"

----------------------------------------------------------------------------
(* Unsynchronised registration *)

\* How many Adds of cb on e have been completed.
Completed(e, cb) ==
    LET n(g) == Cardinality({k \in 1..Len(racers[g].done) :
                                racers[g].done[k] = [ev |-> e, cb |-> cb]})
    IN n("g1") + n("g2")

\* No Add overlapped another Add on its instance or a dispatch.
Orderly == \A g \in Goroutines : ~racers[g].raced

\* A completed registration is missing from the sequence.
LostCallback(e) ==
    \E cb \in RaceCallbacks(e) : Count(events[e], cb) < Completed(e, cb)

\* C17: when the registrations are not interleaved with each other and are
\* complete before any dispatch, no registered callback is missing from its
\* event's sequence and the sequence every walk sees holds every registered
\* callback; a missing callback, and a mixed slice header with the
\* undefined behaviour that follows it, come from an interleaving only.
\* (The state with a missing callback after two interleaved Adds is the
\* witness.)
C17_OrderlyRegistrationsAllSeen ==
    /\ Orderly =>
          /\ Defined
          /\ \A e \in RaceTargets : ~LostCallback(e)
          /\ \A e \in RaceTargets : \A cb \in RaceCallbacks(e) :
                call.ev = e => Count(call.cbs, cb) = Completed(e, cb)
          /\ Len(events["OnNew"]) + Len(events["LocalQuery"]) = adds
    /\ (\E e \in RaceTargets : LostCallback(e)) => ~Orderly

C17_Witness ==
    /\ \A g \in Goroutines : ~InAdd(g)
    /\ racers["g1"].done = <<[ev |-> "OnNew", cb |-> "cbA"]>>
    /\ racers["g2"].done = <<[ev |-> "OnNew", cb |-> "cbB"]>>
    /\ Len(events["OnNew"]) = 1
    /\ LostCallback("OnNew")

\* An access met a store in progress and found a mixed header.
C17_MixedHeaderReached ==
    /\ ~Defined
    /\ ~Orderly

\* Two orderly registrations seen by a walk.
C17_OrderlyReached ==
    /\ Orderly
    /\ call.ev = "OnNew"
    /\ status = "returned"
    /\ racers["g1"].done = <<[ev |-> "OnNew", cb |-> "cbA"]>>
    /\ racers["g2"].done = <<[ev |-> "OnNew", cb |-> "cbB"]>>
    /\ call.cbs = <<"cbB", "cbA">>

----------------------------------------------------------------------------
(* Registration from inside a walk *)

RegisteringTargets == RegisteringViewTargets \cup RegisteringQueryTargets

\* The callbacks that only a callback registers.
NewCallbacks == {"cbNew", "HNew"}

\* A callback called so far in the firing has registered its new callback.
RegisteredInWalk ==
    \E k \in 1..Len(log) :
        /\ log[k].cb \in {"cbReg", "HReg"}
        /\ ~Occurs(NewCallbackOf(log[k].cb), call.cbs)

\* C18 as stated: a walk calls exactly the callbacks present at its start,
\* and a callback registered from inside an earlier walk is called, last,
\* by every later walk of the event.
C18_NewCallbackLastInLaterWalks ==
    (call.ev \in RegisteringTargets /\ status = "returned") =>
        /\ log = Invoked(call.cbs, call.args, Len(call.cbs))
        /\ \A k \in 1..Len(call.cbs) :
              call.cbs[k] \in NewCallbacks =>
                  /\ k <= Len(log)
                  /\ \A j \in (k + 1)..Len(log) : log[j].cb \in NewCallbacks

\* C18 as the code has it: a walk calls only callbacks of the sequence as it
\* was when the walk started, in order: all of them in a multicast walk,
\* those up to the first decisive answer in a context query.  A callback
\* registered from inside the walk is put at the end of the event's
\* sequence and is not called in that walk.  Every later walk ranges over
\* the whole sequence of that time, so a later multicast walk calls the new
\* callback after every callback registered before it, and a later context
\* query calls it if every handler before it answers Unknown.
C18_WalkRangesOverSnapshot ==
    /\ []((call.ev \in RegisteringTargets) =>
            /\ Len(log) <= Len(call.cbs)
            /\ log = Invoked(call.cbs, call.args, Len(log))
            /\ events[call.ev] =
                  IF RegisteredInWalk
                  THEN call.cbs \o <<IF Family(call.ev) = "view" THEN "cbNew" ELSE "HNew">>
                  ELSE call.cbs
            /\ (status = "returned" /\ Family(call.ev) = "view") =>
                  Len(log) = Len(call.cbs)
            /\ (status = "returned" /\ Family(call.ev) = "query") =>
                  /\ \A k \in 1..(Len(log) - 1) :
                        HandlerReturn(log[k].cb, call.args) = Unknown
                  /\ \/ Len(log) = Len(call.cbs)
                     \/ HandlerReturn(log[Len(log)].cb, call.args) # Unknown)
    /\ [][(stack = << >> /\ stack' # << >>) =>
            /\ events' = events
            /\ call'.cbs = events[call'.ev]
            /\ stack'[1].cbs = events[call'.ev]]_vars

\* A later walk, after a module registered one more callback: the new
\* callback is called, and not last.
C18_LaterWalkReached ==
    /\ call.ev = "OnNew"
    /\ call.cbs = <<"cbReg", "cbNew", "cbA">>
    /\ status = "returned"
    /\ log = Invoked(call.cbs, call.args, 3)

\* The walk in which the new callback is registered and not called.
C18_Witness ==
    /\ call.ev = "OnNew"
    /\ call.cbs = <<"cbReg", "cbA">>
    /\ status = "returned"
    /\ events["OnNew"] = <<"cbReg", "cbA", "cbNew">>
    /\ log = Invoked(call.cbs, call.args, 2)

----------------------------------------------------------------------------
(* The built-in handler and the handlers of feature modules *)

\* The queries the built-in handler answers: a "setting." key with
\* equality, and "num_selections" with equality or not-equal.
BuiltinAnswers(q) ==
    \/ HasPrefix(q[2], Str_setting_dot) /\ q[3] = OpEqual
    \/ q[2] = Str_num_selections /\ q[3] \in {OpEqual, OpNotEqual}

\* C19: the built-in handler is the first element of OnQueryContext.  For a
\* query it answers True or False, it is the only handler called and its
\* answer is the result, whatever handlers the modules registered; a
\* handler of a module is called only for a query the built-in handler
\* answers Unknown.
C19_BuiltinAnswersFirst ==
    /\ events["OnQueryContext"] # << >>
    /\ events["OnQueryContext"][1] = BuiltinHandler
    /\ call.ev = "OnQueryContext" =>
          /\ call.cbs[1] = BuiltinHandler
          /\ log # << >> => log[1] = [cb |-> BuiltinHandler, args |-> call.args]
          /\ BuiltinAnswers(call.args) =>
                /\ Len(log) <= 1
                /\ status # "panicked"
                /\ status = "returned" =>
                      /\ Len(log) = 1
                      /\ ret[1] \in {True, False}
                      /\ ret = <<BuiltinQueryContext(call.args[1], call.args[2],
                                    call.args[3], call.args[4], call.args[5])>>
          /\ \A k \in 2..Len(log) :
                /\ log[k].cb \in ModuleHandlers
                /\ ~BuiltinAnswers(call.args)
                /\ BuiltinQueryContext(call.args[1], call.args[2], call.args[3],
                                       call.args[4], call.args[5]) = Unknown

C19_Witness ==
    /\ call.ev = "OnQueryContext"
    /\ call.cbs = <<BuiltinHandler, "H3", "HPanic">>
    /\ call.args[2] = Str_setting_dot \o Str_wrap
    /\ status = "returned"
    /\ Len(log) = 1
    /\ ret = <<True>>

\* A query the built-in handler leaves open, answered by a module.
C19_ModuleConsultedReached ==
    /\ call.ev = "OnQueryContext"
    /\ call.cbs = <<BuiltinHandler, "H1", "H3">>
    /\ ~BuiltinAnswers(call.args)
    /\ status = "returned"
    /\ Len(log) = 3
    /\ ret = <<False>>

----------------------------------------------------------------------------
(* Frame conditions *)

\* This step changes the sequence of one instance and of no other.
TouchesOne ==
    \E e \in EventInstances :
        /\ events'[e] # events[e]
        /\ \A o \in EventInstances \ {e} : events'[o] = events[o]

\* C20: a registration changes the sequence of one instance and of no
\* other, and no step changes a naming table; a step of a dispatch in which
\* no callback registers changes no sequence, so that during and after the
\* dispatch the sequence of the dispatched instance is the one the dispatch
\* started with.
C20_FrameConditions ==
    /\ [][ IF adds' = adds
           THEN events' = events /\ names' = names
           ELSE TouchesOne /\ names' = names ]_vars
    /\ [](call.ev \in EventInstances => events[call.ev] = call.cbs)

C20_Witness ==
    /\ adds = 2
    /\ events["OnInit"] = <<"cbA">>
    /\ events["OnPackagesPathAdd"] = <<"cbB">>
    /\ events["OnLoad"] = <<WatchOnLoad>>
    /\ call.ev = "OnQueryContext"
    /\ status = "returned"
    /\ Len(log) = 1
    /\ events["OnQueryContext"] = <<BuiltinHandler>>

============================================================================
